---- MODULE Spec2Model ----
(***************************************************************************)
(* ParkM email classification core: EmailClassifier.classify_email and     *)
(* EmailClassifier.get_routing_recommendation (src/src/services/           *)
(* classifier.py), driven by the responses of the downstream completion    *)
(* call; and around it the webhook handlers, the tagger, the analytics and *)
(* correction logs, the wizard service, the throttle of the webhook        *)
(* endpoints and the token cache of the ticket-system client.              *)
(*                                                                         *)
(* JSON / Python values are tagged tuples: <<"null">> is None / JSON null, *)
(* <<"str", s>> a string, <<"num", n>> a number (confidence is kept in     *)
(* hundredths: 0.95 is 95), <<"bool", b>> a boolean, <<"obj", d>> a dict   *)
(* whose keys are DOMAIN d.                                                *)
(***************************************************************************)
EXTENDS Integers, Sequences, FiniteSets, TLC

VARIABLES pc, response, retval, exc, usageLogged, requests, routing, calls,
          email, logOutcome, instance

\* the webhook layer: the handler tasks, the analytics log, and what the
\* ticket system has stored
VARIABLES task, events, tickets

callVars == <<pc, response, retval, exc, usageLogged, requests, routing, calls,
              email, logOutcome>>

hookVars == <<task, events, tickets>>

\* the correction store: whether DATABASE_URL was found set when get_engine
\* first read it, the rows of the corrections table, the lines of
\* logs/corrections.jsonl, the calls of log_correction made so far, and the
\* last result of get_corrections_summary
VARIABLES database_url, db_corrections, jsonl_corrections, correction_calls,
          summary

correctionVars == <<database_url, db_corrections, jsonl_corrections,
                    correction_calls, summary>>

\* the wizard service: the module-level cache _wizard_data, the objects
\* allocated so far, and the wizards handed to callers
VARIABLES wizard_data, heap, wizards

wizardVars == <<wizard_data, heap, wizards>>

\* the throttle of the webhook endpoints: the free permits of
\* _webhook_semaphore and the background task of every webhook request
VARIABLES permits, worker

serverVars == <<permits, worker>>

\* the ZohoDeskClient instance: its access_token field, the refresh
\* requests sent so far, and the position of every API call made on it
VARIABLES access_token, token_requests, api

tokenVars == <<access_token, token_requests, api>>

\* everything outside the classifier and the ticket-created handler
extVars == <<correctionVars, wizardVars, serverVars, tokenVars>>

vars == <<pc, response, retval, exc, usageLogged, requests, routing, calls,
          email, logOutcome, instance, task, events, tickets, extVars>>

(***************************************************************************)
(* Bounds                                                                  *)
(***************************************************************************)
\* number of get_routing_recommendation calls made on one classification
MaxRouteCalls == 2

\* number of emails handed to classify_email, one after the other
MaxCalls == 2

\* number of webhook handler tasks (one ticket each)
MaxTasks == 2

\* number of webhook requests sent to the two endpoints
MaxWebhooks == 4

\* number of API calls (get_ticket, update_ticket, ...) made on one
\* ZohoDeskClient instance
MaxApiCalls == 3

\* asyncio.Semaphore(3)
SemaphorePermits == 3

(***************************************************************************)
(* JSON values                                                             *)
(***************************************************************************)
JNull == <<"null">>
Str(s) == <<"str", s>>
Num(n) == <<"num", n>>
Bool(b) == <<"bool", b>>
Obj(d) == <<"obj", d>>

\* dict.get(key): the value, or None when the key is absent
Get(d, k) == IF k \in DOMAIN d THEN d[k] ELSE JNull

\* the dict d restricted to the keys in K
Restrict(d, K) == [k \in (DOMAIN d) \cap K |-> d[k]]

(***************************************************************************)
(* The classification schema (prompt of _build_classification_prompt)      *)
(***************************************************************************)
Intents ==
    {"refund_request", "permit_cancellation", "account_update",
     "permit_inquiry", "payment_issue", "technical_issue", "move_out",
     "general_question", "unclear"}

Complexities == {"simple", "moderate", "complex"}

Urgencies == {"high", "medium", "low"}

EntityKeys == {"license_plate", "move_out_date", "property_name", "amount"}

SchemaKeys ==
    {"intent", "complexity", "language", "urgency", "confidence",
     "key_entities", "requires_refund", "requires_human_review",
     "suggested_response_type", "notes"}

\* the five queue names get_routing_recommendation can return
Queues ==
    {"Auto-Resolution Queue", "Accounting/Refunds", "Quick Updates",
     "Escalations", "General Support"}

(***************************************************************************)
(* What the downstream completion call can answer.  The model is free to   *)
(* answer with any JSON object: intents outside the prompt's list (the     *)
(* ones the routing tests use), nulls, missing keys.                       *)
(***************************************************************************)
UnlistedIntents == {"tow_issue", "password_reset"}

IntentValues == {Str(i) : i \in Intents \cup UnlistedIntents} \cup {JNull}

ComplexityValues == {Str(c) : c \in Complexities} \cup {JNull}

UrgencyValues == {Str(u) : u \in Urgencies} \cup {JNull}

NoEntities == [k \in EntityKeys |-> JNull]

\* the remaining fields vary together, in four profiles
Profiles ==
    { [confidence |-> Num(95), language |-> Str("english"),
       key_entities |-> Obj(NoEntities),
       requires_refund |-> Bool(FALSE), requires_human_review |-> Bool(FALSE),
       suggested_response_type |-> Str("auto_resolve"),
       notes |-> Str("clear request")],
      [confidence |-> Num(35), language |-> Str("spanish"),
       key_entities |-> Obj([NoEntities EXCEPT !["license_plate"] = Str("ABC-1234")]),
       requires_refund |-> Bool(TRUE), requires_human_review |-> Bool(TRUE),
       suggested_response_type |-> Str("manual"),
       notes |-> JNull],
      [confidence |-> Num(120), language |-> Str("mixed"),
       key_entities |-> Obj([NoEntities EXCEPT !["amount"] = Str("45.00")]),
       requires_refund |-> Bool(TRUE), requires_human_review |-> Bool(FALSE),
       suggested_response_type |-> Str("auto_draft"),
       notes |-> Str("charge dispute")],
      [confidence |-> JNull, language |-> JNull,
       key_entities |-> JNull,
       requires_refund |-> JNull, requires_human_review |-> JNull,
       suggested_response_type |-> JNull,
       notes |-> JNull] }

MkClassification(i, c, u, p) ==
    [k \in SchemaKeys |->
        CASE k = "intent" -> i
          [] k = "complexity" -> c
          [] k = "urgency" -> u
          [] k = "confidence" -> p.confidence
          [] k = "language" -> p.language
          [] k = "key_entities" -> p.key_entities
          [] k = "requires_refund" -> p.requires_refund
          [] k = "requires_human_review" -> p.requires_human_review
          [] k = "suggested_response_type" -> p.suggested_response_type
          [] OTHER -> p.notes]

FullObjects ==
    {MkClassification(i, c, u, p) :
        i \in IntentValues, c \in ComplexityValues, u \in UrgencyValues,
        p \in Profiles}

\* key sets of the answers that leave schema keys out
PartialKeySets ==
    { {},
      {"intent", "confidence"},
      SchemaKeys \ {"confidence"},
      SchemaKeys \ {"key_entities", "notes"} }

JsonObjects ==
    FullObjects \cup {Restrict(d, K) : d \in FullObjects, K \in PartialKeySets}

\* message.content: text that parses to a JSON object, text that does not,
\* or None (no text at all)
JsonText(d) == <<"json", d>>
NotJson == <<"text">>
NoneContent == <<"null">>
NoContent == <<"none">>

Contents == {JsonText(d) : d \in JsonObjects} \cup {NotJson, NoneContent}

\* a response: the create() call raised, or returned content and maybe usage
Responses ==
    {[raises |-> TRUE, usage |-> FALSE, content |-> NoContent]}
    \cup [raises : {FALSE}, usage : BOOLEAN, content : Contents]

\* what log_api_usage / estimate_openai_cost do when called
LogOutcomes == {"written", "not_written", "raises"}

\* the (subject, body) handed to classify_email
EmptyEmail == [subject |-> "", body |-> ""]

Emails ==
    {EmptyEmail,
     [subject |-> "Refund for parking",
      body |-> "I moved out on Jan 1. Refund me the $45 charge."]}

NoEmail == [subject |-> "-", body |-> "-"]

\* EmailClassifier.__init__: the fields of the one shared instance
NewInstance ==
    [settings |-> "settings", client |-> "OpenAI", model |-> "gpt-4o-mini"]

(***************************************************************************)
(* json.loads                                                              *)
(***************************************************************************)
NoValue == <<"none">>

json_loads(content) ==
    IF content[1] = "json"
    THEN [kind |-> "return", value |-> Obj(content[2]), exc |-> "none"]
    ELSE IF content = NotJson
    THEN [kind |-> "raise", value |-> NoValue, exc |-> "JSONDecodeError"]
    ELSE [kind |-> "raise", value |-> NoValue, exc |-> "TypeError"]

(***************************************************************************)
(* EmailClassifier.classify_email: its outcome on a downstream response    *)
(***************************************************************************)
\* variant: a failure of the call or of the parse is caught and an `unclear`
\* classification is returned in its place
classify_outcome_fallback(resp) ==
    IF resp.raises \/ json_loads(resp.content).kind = "raise"
    THEN [kind |-> "return",
          value |-> Obj(MkClassification(Str("unclear"), JNull, JNull,
                        [confidence |-> Num(0), language |-> JNull,
                         key_entities |-> JNull, requires_refund |-> JNull,
                         requires_human_review |-> Bool(TRUE),
                         suggested_response_type |-> Str("manual"),
                         notes |-> JNull])),
          exc |-> "none"]
    ELSE json_loads(resp.content)

classify_outcome(resp) ==
    IF resp.raises
    THEN [kind |-> "raise", value |-> NoValue, exc |-> "APIError"]
    ELSE json_loads(resp.content)

\* the usage block: an entry is written only when usage is present and the
\* logger wrote it; an exception of the logger is swallowed
usage_logged(resp, log) ==
    ~resp.raises /\ resp.usage /\ log = "written"

\* variant: the usage block has no try/except, an exception of the logger
\* leaves classify_email
usage_block_unguarded(resp, log) ==
    IF resp.usage /\ log = "raises" THEN "LoggingError" ELSE "none"

\* the exception that leaves the usage block of a call that got a response:
\* none, the block swallows whatever the logger raises
usage_block(resp, log) == "none"

\* what the logger did in this invocation; it is only called when the
\* completion call returned and the response carries usage data
log_outcome(resp, log) ==
    IF ~resp.raises /\ resp.usage THEN log ELSE "skipped"

\* variant: a failed completion call is tried once more
completion_requests_retry(resp) == IF resp.raises THEN 2 ELSE 1

\* the number of completion requests one invocation issues: one create()
\* call, outside any loop
completion_requests(resp) == 1

\* variant: the last model name answered by the downstream is kept on the
\* instance
instance_after_call_caches(inst, resp) ==
    IF resp.raises THEN inst ELSE [inst EXCEPT !.model = "cached"]

\* the instance fields after a call: classify_email assigns no attribute
instance_after_call(inst, resp) == inst

(***************************************************************************)
(* EmailClassifier.get_routing_recommendation                              *)
(***************************************************************************)
\* variant: the final else branch is missing, the function falls off its end
route_no_default(classification) ==
    LET intent == Get(classification, "intent")
        complexity == Get(classification, "complexity")
    IN  IF intent = Str("refund_request") /\ complexity = Str("simple")
        THEN "Auto-Resolution Queue"
        ELSE IF intent \in {Str("refund_request"), Str("payment_issue")}
        THEN "Accounting/Refunds"
        ELSE IF intent = Str("permit_cancellation") /\ complexity = Str("simple")
        THEN "Quick Updates"
        ELSE IF intent = Str("account_update") /\ complexity = Str("simple")
        THEN "Quick Updates"
        ELSE IF \/ complexity = Str("complex")
                \/ Get(classification, "urgency") = Str("high")
        THEN "Escalations"
        ELSE "None"

\* variant: the first two branches are swapped
route_accounting_first(classification) ==
    LET intent == Get(classification, "intent")
        complexity == Get(classification, "complexity")
    IN  IF intent \in {Str("refund_request"), Str("payment_issue")}
        THEN "Accounting/Refunds"
        ELSE IF intent = Str("refund_request") /\ complexity = Str("simple")
        THEN "Auto-Resolution Queue"
        ELSE IF intent = Str("permit_cancellation") /\ complexity = Str("simple")
        THEN "Quick Updates"
        ELSE IF intent = Str("account_update") /\ complexity = Str("simple")
        THEN "Quick Updates"
        ELSE IF \/ complexity = Str("complex")
                \/ Get(classification, "urgency") = Str("high")
        THEN "Escalations"
        ELSE "General Support"

\* variant: the escalation branch is tested before the accounting branch
route_escalation_before_accounting(classification) ==
    LET intent == Get(classification, "intent")
        complexity == Get(classification, "complexity")
    IN  IF intent = Str("refund_request") /\ complexity = Str("simple")
        THEN "Auto-Resolution Queue"
        ELSE IF \/ complexity = Str("complex")
                \/ Get(classification, "urgency") = Str("high")
        THEN "Escalations"
        ELSE IF intent \in {Str("refund_request"), Str("payment_issue")}
        THEN "Accounting/Refunds"
        ELSE IF intent = Str("permit_cancellation") /\ complexity = Str("simple")
        THEN "Quick Updates"
        ELSE IF intent = Str("account_update") /\ complexity = Str("simple")
        THEN "Quick Updates"
        ELSE "General Support"

\* variant: the escalation branch is tested before the quick-update branches
route_escalation_before_quick(classification) ==
    LET intent == Get(classification, "intent")
        complexity == Get(classification, "complexity")
    IN  IF intent = Str("refund_request") /\ complexity = Str("simple")
        THEN "Auto-Resolution Queue"
        ELSE IF intent \in {Str("refund_request"), Str("payment_issue")}
        THEN "Accounting/Refunds"
        ELSE IF \/ complexity = Str("complex")
                \/ Get(classification, "urgency") = Str("high")
        THEN "Escalations"
        ELSE IF intent = Str("permit_cancellation") /\ complexity = Str("simple")
        THEN "Quick Updates"
        ELSE IF intent = Str("account_update") /\ complexity = Str("simple")
        THEN "Quick Updates"
        ELSE "General Support"

\* variant: the escalation branch needs both conditions (`and` for `or`)
route_escalation_and(classification) ==
    LET intent == Get(classification, "intent")
        complexity == Get(classification, "complexity")
    IN  IF intent = Str("refund_request") /\ complexity = Str("simple")
        THEN "Auto-Resolution Queue"
        ELSE IF intent \in {Str("refund_request"), Str("payment_issue")}
        THEN "Accounting/Refunds"
        ELSE IF intent = Str("permit_cancellation") /\ complexity = Str("simple")
        THEN "Quick Updates"
        ELSE IF intent = Str("account_update") /\ complexity = Str("simple")
        THEN "Quick Updates"
        ELSE IF /\ complexity = Str("complex")
                /\ Get(classification, "urgency") = Str("high")
        THEN "Escalations"
        ELSE "General Support"

\* variant: the escalation branch looks at complexity only
route_ignores_urgency(classification) ==
    LET intent == Get(classification, "intent")
        complexity == Get(classification, "complexity")
    IN  IF intent = Str("refund_request") /\ complexity = Str("simple")
        THEN "Auto-Resolution Queue"
        ELSE IF intent \in {Str("refund_request"), Str("payment_issue")}
        THEN "Accounting/Refunds"
        ELSE IF intent = Str("permit_cancellation") /\ complexity = Str("simple")
        THEN "Quick Updates"
        ELSE IF intent = Str("account_update") /\ complexity = Str("simple")
        THEN "Quick Updates"
        ELSE IF complexity = Str("complex")
        THEN "Escalations"
        ELSE "General Support"

\* variant: a ticket flagged requires_refund goes to accounting whatever its
\* intent
route_reads_refund_flag(classification) ==
    LET intent == Get(classification, "intent")
        complexity == Get(classification, "complexity")
    IN  IF intent = Str("refund_request") /\ complexity = Str("simple")
        THEN "Auto-Resolution Queue"
        ELSE IF \/ intent \in {Str("refund_request"), Str("payment_issue")}
                \/ Get(classification, "requires_refund") = Bool(TRUE)
        THEN "Accounting/Refunds"
        ELSE IF intent = Str("permit_cancellation") /\ complexity = Str("simple")
        THEN "Quick Updates"
        ELSE IF intent = Str("account_update") /\ complexity = Str("simple")
        THEN "Quick Updates"
        ELSE IF \/ complexity = Str("complex")
                \/ Get(classification, "urgency") = Str("high")
        THEN "Escalations"
        ELSE "General Support"

get_routing_recommendation(classification) ==
    LET intent == Get(classification, "intent")
        complexity == Get(classification, "complexity")
    IN  IF intent = Str("refund_request") /\ complexity = Str("simple")
        THEN "Auto-Resolution Queue"
        ELSE IF intent \in {Str("refund_request"), Str("payment_issue")}
        THEN "Accounting/Refunds"
        ELSE IF intent = Str("permit_cancellation") /\ complexity = Str("simple")
        THEN "Quick Updates"
        ELSE IF intent = Str("account_update") /\ complexity = Str("simple")
        THEN "Quick Updates"
        ELSE IF \/ complexity = Str("complex")
                \/ Get(classification, "urgency") = Str("high")
        THEN "Escalations"
        ELSE "General Support"

(***************************************************************************)
(* State machine                                                           *)
(***************************************************************************)
NoResponse == [raises |-> FALSE, usage |-> FALSE, content |-> NoContent]

Init ==
    /\ pc = "idle"
    /\ response = NoResponse
    /\ retval = NoValue
    /\ exc = "none"
    /\ usageLogged = FALSE
    /\ requests = 0
    /\ routing = <<>>
    /\ calls = 0
    /\ email = NoEmail
    /\ logOutcome = "skipped"
    /\ instance = NewInstance
    /\ task = [t \in 1 .. MaxTasks |->
                 [pc |-> "new", fetch |-> "none", response |-> NoResponse,
                  classification |-> NoValue, routing |-> JNull,
                  tag_result |-> JNull]]
    /\ events = <<>>
    /\ tickets = [t \in 1 .. MaxTasks |->
                    [customFields |-> NoValue, comment |-> FALSE]]
    /\ database_url = "unread"
    /\ db_corrections = <<>>
    /\ jsonl_corrections = <<>>
    /\ correction_calls = <<>>
    /\ summary = NoValue
    /\ wizard_data = NoValue
    /\ heap = <<>>
    /\ wizards = <<>>
    /\ permits = SemaphorePermits
    /\ worker = [w \in 1 .. MaxWebhooks |->
                    [kind |-> "none", pc |-> "none", outcome |-> "none"]]
    /\ access_token = JNull
    /\ token_requests = 0
    /\ api = [c \in 1 .. MaxApiCalls |-> "new"]

\* one invocation of classify_email; the downstream answers resp
classify_email ==
    /\ pc = "idle"
    /\ calls < MaxCalls
    /\ \E mail \in Emails, resp \in Responses, log \in LogOutcomes :
        /\ email' = mail
        /\ response' = resp
        /\ requests' = completion_requests(resp)
        /\ usageLogged' = usage_logged(resp, log)
        /\ logOutcome' = log_outcome(resp, log)
        /\ instance' = instance_after_call(instance, resp)
        /\ LET u == IF resp.raises THEN "none" ELSE usage_block(resp, log)
               r == IF u # "none"
                    THEN [kind |-> "raise", value |-> NoValue, exc |-> u]
                    ELSE classify_outcome(resp)
           IN  /\ pc' = IF r.kind = "return" THEN "returned" ELSE "raised"
               /\ retval' = r.value
               /\ exc' = r.exc
    /\ routing' = <<>>
    /\ calls' = calls + 1
    /\ UNCHANGED <<hookVars, extVars>>

\* the caller routes the classification it was handed
CallRouting ==
    /\ pc = "returned"
    /\ Len(routing) < MaxRouteCalls
    /\ routing' = Append(routing, get_routing_recommendation(retval[2]))
    /\ UNCHANGED <<pc, response, retval, exc, usageLogged, requests, calls,
                   email, logOutcome, instance>>
    /\ UNCHANGED <<hookVars, extVars>>

\* the caller is done with this email; the classification is discarded
Discard ==
    /\ pc \in {"returned", "raised"}
    /\ pc' = "idle"
    /\ response' = NoResponse
    /\ retval' = NoValue
    /\ exc' = "none"
    /\ usageLogged' = FALSE
    /\ requests' = 0
    /\ routing' = <<>>
    /\ email' = NoEmail
    /\ logOutcome' = "skipped"
    /\ UNCHANGED <<calls, instance>>
    /\ UNCHANGED <<hookVars, extVars>>

Next ==
    \/ classify_email
    \/ CallRouting
    \/ Discard

Spec == Init /\ [][Next]_vars


(***************************************************************************)
(* TicketTagger.apply_classification_tags                                  *)
(***************************************************************************)
\* self.custom_fields: key -> API name of the custom field
custom_fields ==
    [k \in {"intent", "complexity", "language", "urgency", "confidence",
            "requires_refund", "requires_human_review", "license_plate",
            "move_out_date", "routing_queue"} |->
        CASE k = "intent" -> "cf_ai_intent"
          [] k = "complexity" -> "cf_ai_complexity"
          [] k = "language" -> "cf_ai_language"
          [] k = "urgency" -> "cf_ai_urgency"
          [] k = "confidence" -> "cf_ai_confidence"
          [] k = "requires_refund" -> "cf_requires_refund"
          [] k = "requires_human_review" -> "cf_requires_human_review"
          [] k = "license_plate" -> "cf_license_plate"
          [] k = "move_out_date" -> "cf_move_out_date"
          [] OTHER -> "cf_routing_queue"]

\* Python truth value of a JSON value
Truthy(v) ==
    /\ v # JNull
    /\ v # Str("")
    /\ v # Bool(FALSE)
    /\ v # Num(0)

\* `"queue" in routing`: a key test on a dict; on a str a substring test,
\* and none of the five queue names contains the lowercase word
queue_in(recommendation) ==
    IF recommendation[1] = "obj" THEN "queue" \in DOMAIN recommendation[2] ELSE FALSE

\* the classification keys copied one to one into the payload
CopiedKeys ==
    {"intent", "complexity", "language", "urgency", "confidence",
     "requires_refund", "requires_human_review"}

\* building custom_field_data: the payload, or the error raised on the way
\* (None * 100 for a null confidence, `in None` for null key_entities)
build_custom_field_data(classification, recommendation) ==
    LET ents == IF "key_entities" \in DOMAIN classification
                THEN classification["key_entities"]
                ELSE Obj([k \in {} |-> JNull])
        direct == CopiedKeys \cap DOMAIN classification
        entity == IF ents[1] = "obj"
                  THEN {k \in {"license_plate", "move_out_date"} :
                           k \in DOMAIN ents[2] /\ Truthy(ents[2][k])}
                  ELSE {}
        queue == IF queue_in(recommendation) THEN {"routing_queue"} ELSE {}
        keys == direct \cup entity \cup queue
        value(k) == IF k \in direct THEN classification[k]
                    ELSE IF k \in entity THEN ents[2][k]
                    ELSE recommendation[2]["queue"]
    IN  IF "confidence" \in DOMAIN classification
           /\ classification["confidence"] = JNull
        THEN [exc |-> "TypeError", data |-> NoValue]
        ELSE IF ents = JNull
        THEN [exc |-> "TypeError", data |-> NoValue]
        ELSE [exc |-> "none",
              data |-> Obj([f \in {custom_fields[k] : k \in keys} |->
                           value(CHOOSE k \in keys : custom_fields[k] = f)])]

\* self.zoho_client.update_ticket(...) as the tagger calls it: update_ticket
\* is `async def` and the call is not awaited, so the result is a coroutine
\* object (truthy) and no request is sent
update_ticket_call(data) == [result |-> TRUE, request |-> NoValue]

\* _build_classification_comment: the error it raises, routing.get on a str
\* is an AttributeError
build_comment_exc(classification, recommendation) ==
    IF Get(classification, "confidence") = JNull
          /\ "confidence" \in DOMAIN classification
    THEN "TypeError"
    ELSE IF recommendation[1] # "obj" THEN "AttributeError"
    ELSE "none"

\* self.zoho_client.add_comment(...) as the tagger calls it: not awaited
\* either, no comment is posted
add_comment_call == FALSE

\* apply_classification_tags: what it returns, the update request that
\* reached the ticket system (NoValue: none) and whether a comment was posted
apply_classification_tags(classification, recommendation) ==
    LET built == build_custom_field_data(classification, recommendation)
        upd == update_ticket_call(built.data)
    IN  IF built.exc # "none"
        THEN [result |-> FALSE, request |-> NoValue, comment |-> FALSE]
        ELSE IF ~upd.result
        THEN [result |-> FALSE, request |-> upd.request, comment |-> FALSE]
        ELSE IF build_comment_exc(classification, recommendation) # "none"
        THEN [result |-> FALSE, request |-> upd.request, comment |-> FALSE]
        ELSE [result |-> TRUE, request |-> upd.request,
              comment |-> add_comment_call]

(***************************************************************************)
(* log_classification_event                                                *)
(***************************************************************************)
\* variant: the error branch does not keep the error text
log_entry_drops_error(ticket_id, classification, recommendation, tagging_success, error) ==
    IF classification # NoValue /\ DOMAIN classification[2] # {}
    THEN [ticket_id |-> ticket_id,
          intent |-> Get(classification[2], "intent"),
          confidence |-> Get(classification[2], "confidence"),
          complexity |-> Get(classification[2], "complexity"),
          urgency |-> Get(classification[2], "urgency"),
          routing_queue |-> recommendation,
          tagging_success |-> tagging_success,
          error |-> JNull]
    ELSE [ticket_id |-> ticket_id,
          intent |-> JNull,
          confidence |-> JNull,
          complexity |-> JNull,
          urgency |-> JNull,
          routing_queue |-> JNull,
          tagging_success |-> FALSE,
          error |-> JNull]

\* the entry built for a classification (None or a dict; an empty dict is
\* falsy and takes the error branch)
log_entry(ticket_id, classification, recommendation, tagging_success, error) ==
    IF classification # NoValue /\ DOMAIN classification[2] # {}
    THEN [ticket_id |-> ticket_id,
          intent |-> Get(classification[2], "intent"),
          confidence |-> Get(classification[2], "confidence"),
          complexity |-> Get(classification[2], "complexity"),
          urgency |-> Get(classification[2], "urgency"),
          routing_queue |-> recommendation,
          tagging_success |-> tagging_success,
          error |-> JNull]
    ELSE [ticket_id |-> ticket_id,
          intent |-> JNull,
          confidence |-> JNull,
          complexity |-> JNull,
          urgency |-> JNull,
          routing_queue |-> JNull,
          tagging_success |-> FALSE,
          error |-> error]

\* variant: the entry goes to the database and to the JSONL file as well
log_classification_event_twice(log, entry, written) ==
    IF written THEN Append(Append(log, entry), entry) ELSE log

\* the log after the call: the entry is appended unless both the database
\* and the JSONL fallback failed
log_classification_event(log, entry, written) ==
    IF written THEN Append(log, entry) ELSE log

(***************************************************************************)
(* process_ticket_webhook                                                  *)
(***************************************************************************)
Tasks == 1 .. MaxTasks

\* what get_ticket can do: return the ticket, return nothing, raise
FetchOutcomes == {"data", "empty", "raises"}

\* the answers of the completion call the webhook layer is run against
WebhookObjects ==
    { MkClassification(Str("refund_request"), Str("simple"), Str("high"),
          [confidence |-> Num(95), language |-> Str("english"),
           key_entities |-> Obj([NoEntities EXCEPT
                                   !["license_plate"] = Str("ABC-1234")]),
           requires_refund |-> Bool(TRUE),
           requires_human_review |-> Bool(FALSE),
           suggested_response_type |-> Str("auto_resolve"),
           notes |-> Str("clear request")]),
      MkClassification(Str("permit_inquiry"), Str("complex"), Str("low"),
          [confidence |-> JNull, language |-> JNull, key_entities |-> JNull,
           requires_refund |-> JNull, requires_human_review |-> JNull,
           suggested_response_type |-> JNull, notes |-> JNull]),
      [k \in {"intent", "complexity"} |->
          IF k = "intent" THEN Str("account_update") ELSE Str("simple")],
      [k \in {} |-> JNull] }

WebhookResponses ==
    {[raises |-> TRUE, usage |-> FALSE, content |-> NoContent],
     [raises |-> FALSE, usage |-> TRUE, content |-> NotJson]}
    \cup {[raises |-> FALSE, usage |-> TRUE, content |-> JsonText(d)] :
             d \in WebhookObjects}

\* the handler starts and awaits zoho_client.get_ticket
StartWebhook(t) ==
    /\ task[t].pc = "new"
    /\ task' = [task EXCEPT ![t].pc = "fetching"]
    /\ UNCHANGED <<callVars, instance, events, tickets, extVars>>

\* get_ticket completes and the handler runs to its end: nothing below
\* suspends (classify_email is synchronous, the tagger awaits nothing)
process_ticket_webhook(t) ==
    /\ task[t].pc = "fetching"
    /\ \E fetch \in FetchOutcomes, resp \in WebhookResponses,
          log \in LogOutcomes, written \in BOOLEAN :
        IF fetch = "empty"
        THEN /\ task' = [task EXCEPT ![t].pc = "done", ![t].fetch = fetch]
             /\ UNCHANGED <<events, tickets, instance>>
        ELSE IF fetch = "raises"
        THEN /\ task' = [task EXCEPT ![t].pc = "done", ![t].fetch = fetch]
             /\ events' = log_classification_event(events,
                    log_entry(t, NoValue, JNull, FALSE, Str("HTTPError")),
                    written)
             /\ UNCHANGED <<tickets, instance>>
        ELSE LET u == IF resp.raises THEN "none" ELSE usage_block(resp, log)
                 r == IF u # "none"
                      THEN [kind |-> "raise", value |-> NoValue, exc |-> u]
                      ELSE classify_outcome(resp)
             IN  /\ instance' = instance_after_call(instance, resp)
                 /\ IF r.kind = "raise"
                    THEN /\ task' = [task EXCEPT ![t].pc = "done",
                                        ![t].fetch = fetch,
                                        ![t].response = resp]
                         /\ events' = log_classification_event(events,
                                log_entry(t, NoValue, JNull, FALSE,
                                          Str(r.exc)), written)
                         /\ UNCHANGED tickets
                    ELSE LET queue == Str(get_routing_recommendation(r.value[2]))
                             tag == apply_classification_tags(r.value[2], queue)
                         IN  /\ task' = [task EXCEPT ![t].pc = "done",
                                            ![t].fetch = fetch,
                                            ![t].response = resp,
                                            ![t].classification = r.value,
                                            ![t].routing = queue,
                                            ![t].tag_result = Bool(tag.result)]
                             /\ tickets' = [tickets EXCEPT ![t] =
                                    [customFields |->
                                        IF tag.request = NoValue
                                        THEN tickets[t].customFields
                                        ELSE tag.request,
                                     comment |-> tag.comment]]
                             /\ events' = log_classification_event(events,
                                    log_entry(t, r.value, queue, tag.result,
                                              JNull), written)
    /\ UNCHANGED <<callVars, extVars>>

NextWebhook ==
    \E t \in Tasks : StartWebhook(t) \/ process_ticket_webhook(t)

SpecWebhook == Init /\ [][NextWebhook]_vars

(***************************************************************************)
(* apply_classification_tags called on its own, with the routing argument  *)
(* in both forms: the queue string the callers pass, and the dict its       *)
(* signature and body (routing["queue"], routing.get) are written for       *)
(***************************************************************************)
RoutingArguments ==
    {Str(q) : q \in Queues}
    \cup {Obj([k \in {"queue", "reason"} |->
                 IF k = "queue" THEN Str(q) ELSE Str("routing rule")]) :
             q \in Queues}

TagTicket(t) ==
    /\ task[t].pc = "new"
    /\ \E d \in WebhookObjects, recommendation \in RoutingArguments :
        LET tag == apply_classification_tags(d, recommendation)
        IN  /\ task' = [task EXCEPT ![t].pc = "done",
                           ![t].classification = Obj(d),
                           ![t].routing = recommendation,
                           ![t].tag_result = Bool(tag.result)]
            /\ tickets' = [tickets EXCEPT ![t] =
                   [customFields |->
                       IF tag.request = NoValue
                       THEN tickets[t].customFields
                       ELSE tag.request,
                    comment |-> tag.comment]]
    /\ UNCHANGED <<callVars, instance, events, extVars>>

NextTagger == \E t \in Tasks : TagTicket(t)

SpecTagger == Init /\ [][NextTagger]_vars

(***************************************************************************)
(* Correction logging: log_correction, get_corrections_summary             *)
(* (src/src/services/correction_logger.py) and process_correction_webhook  *)
(* (src/src/api/webhooks.py)                                               *)
(***************************************************************************)
\* number of log_correction calls and correction webhooks, together
MaxCorrections == 2

\* intents a caller of log_correction passes
LoggedIntents == {Str("refund_request"), Str("permit_inquiry")}

\* the keyword an agent picks when the classification was right
CorrectKeyword == Str("correct")

\* the AI confidence on a 0-100 scale, or None
CorrectionConfidences == {Num(85), JNull}

\* get_engine: an engine exactly when DATABASE_URL is set; the environment
\* is read on the first call and does not change while the process runs
get_engine(url) == url = "set"

\* variant: only the comparison with the original intent decides the flag
correction_record_no_keyword(ticket_id, original_intent, corrected_intent, confidence, department_id) ==
    [ticket_id |-> ticket_id,
     department_id |-> department_id,
     original_intent |-> original_intent,
     corrected_intent |-> corrected_intent,
     confidence |-> confidence,
     is_misclassification |-> corrected_intent # original_intent]

\* the row / entry log_correction builds from its arguments
correction_record(ticket_id, original_intent, corrected_intent, confidence, department_id) ==
    [ticket_id |-> ticket_id,
     department_id |-> department_id,
     original_intent |-> original_intent,
     corrected_intent |-> corrected_intent,
     confidence |-> confidence,
     is_misclassification |->
         corrected_intent # CorrectKeyword
         /\ corrected_intent # original_intent]

\* the insert fails on a fault of the connection and on a NULL in a column
\* declared nullable=False
db_insert_raises(rec, fault) ==
    fault \/ rec.original_intent = JNull \/ rec.corrected_intent = JNull

\* json.dumps(entry) + "\n"
jsonl_line(entry) == <<"line", entry>>

\* json.loads(line.strip())
jsonl_entry(line) == line[2]

\* log_correction: the database first, logs/corrections.jsonl when there is
\* no engine or the insert raised, False when the file write raised too
log_correction(db, jsonl, url, rec, dbFault, fileFault) ==
    IF get_engine(url) /\ ~db_insert_raises(rec, dbFault)
    THEN [db |-> Append(db, rec), jsonl |-> jsonl,
          returned |-> TRUE, store |-> "db"]
    ELSE IF ~fileFault
    THEN [db |-> db, jsonl |-> Append(jsonl, jsonl_line(rec)),
          returned |-> TRUE, store |-> "jsonl"]
    ELSE [db |-> db, jsonl |-> jsonl, returned |-> FALSE, store |-> "none"]

\* _fetch_all_corrections: the rows of the table when there is an engine and
\* the read does not raise, the entries of the file otherwise
fetch_all_corrections(db, jsonl, url, readFault) ==
    IF get_engine(url) /\ ~readFault
    THEN db
    ELSE [k \in DOMAIN jsonl |-> jsonl_entry(jsonl[k])]

\* str() of an intent inside the f-string
intent_text(v) == IF v = JNull THEN "None" ELSE v[2]

\* f"{e['original_intent']} -> {e['corrected_intent']}"
pair_of(e) ==
    intent_text(e.original_intent) \o " -> " \o intent_text(e.corrected_intent)

\* the confusion_counts dict after the loop, in insertion order
RECURSIVE confusion_counts(_)
confusion_counts(ms) ==
    IF ms = <<>>
    THEN <<>>
    ELSE LET prev == confusion_counts(SubSeq(ms, 1, Len(ms) - 1))
             p == pair_of(ms[Len(ms)])
         IN  IF \E k \in DOMAIN prev : prev[k].pair = p
             THEN [k \in DOMAIN prev |->
                      IF prev[k].pair = p
                      THEN [pair |-> p, count |-> prev[k].count + 1]
                      ELSE prev[k]]
             ELSE Append(prev, [pair |-> p, count |-> 1])

\* sorted(items, key=count, reverse=True): stable, largest count first
RECURSIVE sorted_pairs(_)
sorted_pairs(items) ==
    IF items = <<>>
    THEN <<>>
    ELSE LET s == sorted_pairs(SubSeq(items, 1, Len(items) - 1))
             item == items[Len(items)]
             n == Cardinality({k \in DOMAIN s : s[k].count >= item.count})
         IN  SubSeq(s, 1, n) \o <<item>> \o SubSeq(s, n + 1, Len(s))

\* round(x * 100, 1) of the share (total - flagged) / total, in tenths of a
\* percent
accuracy_rate(total, flagged) ==
    (2000 * (total - flagged) + total) \div (2 * total)

\* get_corrections_summary on the fetched entries; with no entries the
\* result has no accuracy_rate key
get_corrections_summary(entries) ==
    IF entries = <<>>
    THEN [total |-> 0, misclassifications |-> 0, accuracy_rate |-> NoValue,
          confusion_pairs |-> <<>>]
    ELSE LET misclassifications ==
                 SelectSeq(entries, LAMBDA e : e.is_misclassification)
         IN  [total |-> Len(entries),
              misclassifications |-> Len(misclassifications),
              accuracy_rate |->
                  accuracy_rate(Len(entries), Len(misclassifications)),
              confusion_pairs |->
                  sorted_pairs(confusion_counts(misclassifications))]

\* DATABASE_URL as get_engine finds it: fixed once it has been read
UrlChoices == IF database_url = "unread" THEN {"set", "unset"}
              ELSE {database_url}

\* a caller logs a correction
LogCorrection ==
    /\ Len(correction_calls) < MaxCorrections
    /\ \E original \in LoggedIntents,
          corrected \in LoggedIntents \cup {CorrectKeyword},
          confidence \in CorrectionConfidences,
          url \in UrlChoices, dbFault \in BOOLEAN, fileFault \in BOOLEAN :
        LET rec == correction_record(Str("T001"), original, corrected,
                                     confidence, Str("1234"))
            out == log_correction(db_corrections, jsonl_corrections, url,
                                  rec, dbFault, fileFault)
        IN  /\ database_url' = url
            /\ db_corrections' = out.db
            /\ jsonl_corrections' = out.jsonl
            /\ correction_calls' = Append(correction_calls,
                   [caller |-> "direct",
                    ticket_id |-> Str("T001"),
                    original_intent |-> original,
                    corrected_intent |-> corrected,
                    confidence |-> confidence,
                    department_id |-> Str("1234"),
                    returned |-> out.returned,
                    store |-> out.store])
    /\ UNCHANGED <<summary, callVars, instance, hookVars, wizardVars>>
    /\ UNCHANGED <<serverVars, tokenVars>>

\* the values the cf_agent_corrected_intent field arrives with: missing,
\* blank, the keyword, an intent
PayloadIntents ==
    {JNull, Str(""), CorrectKeyword, Str("refund_request")}

\* cf_ai_intent of the fetched ticket: missing ("unknown" by default), null,
\* or the intent the classifier wrote
TicketIntents == {NoValue, JNull, Str("permit_inquiry")}

\* payload.get(k) or payload.get("cf", {}).get(k)
corrected_intent_of(top, nested) == IF Truthy(top) THEN top ELSE nested

\* cf.get("cf_ai_intent", "unknown")
original_intent_of(v) == IF v = NoValue THEN Str("unknown") ELSE v

\* process_correction_webhook.  Its one suspension, the await of get_ticket,
\* comes before anything is written, and nothing after it suspends.
process_correction_webhook ==
    /\ Len(correction_calls) < MaxCorrections
    /\ \E top \in PayloadIntents, nested \in {JNull, CorrectKeyword},
          fetch \in FetchOutcomes, ai_intent \in TicketIntents,
          url \in UrlChoices, dbFault \in BOOLEAN, fileFault \in BOOLEAN :
        LET corrected_intent == corrected_intent_of(top, nested)
            rec == correction_record(Str("W001"),
                       original_intent_of(ai_intent), corrected_intent,
                       Num(85), Str("1234"))
            out == log_correction(db_corrections, jsonl_corrections, url,
                                  rec, dbFault, fileFault)
        IN  IF ~Truthy(corrected_intent) \/ fetch # "data"
            THEN /\ correction_calls' = Append(correction_calls,
                        [caller |-> "webhook",
                         ticket_id |-> Str("W001"),
                         original_intent |-> JNull,
                         corrected_intent |-> corrected_intent,
                         confidence |-> JNull,
                         department_id |-> JNull,
                         returned |-> FALSE,
                         store |-> "skipped"])
                 /\ UNCHANGED <<database_url, db_corrections,
                                jsonl_corrections>>
            ELSE /\ database_url' = url
                 /\ db_corrections' = out.db
                 /\ jsonl_corrections' = out.jsonl
                 /\ correction_calls' = Append(correction_calls,
                        [caller |-> "webhook",
                         ticket_id |-> Str("W001"),
                         original_intent |-> rec.original_intent,
                         corrected_intent |-> corrected_intent,
                         confidence |-> Num(85),
                         department_id |-> Str("1234"),
                         returned |-> out.returned,
                         store |-> out.store])
    /\ UNCHANGED <<summary, callVars, instance, hookVars, wizardVars>>
    /\ UNCHANGED <<serverVars, tokenVars>>

\* GET /stats: the summary of what has been logged so far
GetCorrectionsSummary ==
    /\ \E url \in UrlChoices, readFault \in BOOLEAN :
        /\ database_url' = url
        /\ summary' =
              <<"summary",
                [report |-> get_corrections_summary(
                                fetch_all_corrections(db_corrections,
                                    jsonl_corrections, url, readFault)),
                 at |-> Len(correction_calls)]>>
    /\ UNCHANGED <<db_corrections, jsonl_corrections, correction_calls,
                   callVars, instance, hookVars, wizardVars>>
    /\ UNCHANGED <<serverVars, tokenVars>>

NextCorrections ==
    \/ LogCorrection
    \/ process_correction_webhook
    \/ GetCorrectionsSummary

SpecCorrections == Init /\ [][NextCorrections]_vars

(***************************************************************************)
(* Wizard service: get_wizard_for_intent (src/src/services/wizard.py).     *)
(* Dicts and lists are objects on a heap, so that two names can denote the *)
(* same object: heap is the sequence of objects allocated so far and a     *)
(* reference is an index into it.                                          *)
(***************************************************************************)
\* number of get_wizard_for_intent calls
MaxWizards == 2

\* a step of a wizard; a key the step does not have is NoValue.  A substep
\* is kept as the sequence of its pieces: text, or a {{key}} placeholder
Step(text, substep, entity_field) ==
    [text |-> text, substep |-> substep, entity_field |-> entity_field,
     entity_value |-> NoValue, entity_found |-> NoValue]

Placeholder(key) == <<"placeholder", key>>

\* wizard_content.json: the wizards by intent, and a comment key.  The file
\* is not among the sources; the content has the shape the tests of the
\* service rely on (label, steps with text, substep and entity_field)
WizardContent ==
    [k \in {"refund_request", "unclear", "_comment"} |->
        IF k = "refund_request"
        THEN [label |-> Str("Refund Request"),
              steps |-> <<Step(Str("Verify the vehicle"),
                               <<Str("Plate: "), Placeholder("license_plate")>>,
                               Str("license_plate")),
                          Step(Str("Check the amount"),
                               <<Str("Amount: "), Placeholder("amount")>>,
                               Str("amount")),
                          Step(Str("Send the reply"), NoValue, NoValue)>>]
        ELSE IF k = "unclear"
        THEN [label |-> Str("Unclear / Needs Review"),
              steps |-> <<Step(Str("Read the email"), NoValue, NoValue)>>]
        ELSE NoValue]

\* the heap objects of one wizard: its list of steps, then the dict itself
WizardObjects(w, stepsRef) ==
    <<[kind |-> "list", items |-> w.steps],
      [kind |-> "dict", label |-> w.label, steps |-> stepsRef,
       ai_confidence |-> NoValue, ai_intent |-> NoValue,
       requires_human_review |-> NoValue, extracted_entities |-> NoValue]>>

\* the nested value a reference to a wizard dict stands for
Deref(h, ref) == [h[ref] EXCEPT !.steps = h[h[ref].steps].items]

\* json.load(f): every value of the file becomes a fresh object
load_wizard_data(h) ==
    LET r == Len(h) + 2
        u == Len(h) + 4
    IN  [heap |-> h \o WizardObjects(WizardContent["refund_request"], r - 1)
                    \o WizardObjects(WizardContent["unclear"], u - 1),
         data |-> [k \in DOMAIN WizardContent |->
                      IF k = "refund_request" THEN r
                      ELSE IF k = "unclear" THEN u
                      ELSE NoValue]]

\* variant: dict(data[intent]), a new dict that shares the list of steps
deep_copy_shallow(h, ref) ==
    [heap |-> Append(h, h[ref]), ref |-> Len(h) + 1]

\* json.loads(json.dumps(data[intent])): a new dict with a new list
deep_copy(h, ref) ==
    [heap |-> h \o <<h[h[ref].steps],
                     [h[ref] EXCEPT !.steps = Len(h) + 1]>>,
     ref |-> Len(h) + 2]

\* str(extracted["amount"])
str_of(v) == IF v[1] = "num" THEN Str(ToString(v[2])) ELSE v

EntityNames == {"license_plate", "move_out_date", "amount"}

\* the entities dict built from classification["extracted_entities"]
wizard_entities(classification) ==
    IF classification = NoValue \/ DOMAIN classification[2] = {}
    THEN [k \in {} |-> JNull]
    ELSE LET found == Get(classification[2], "extracted_entities")
             extracted == IF Truthy(found) THEN found[2]
                          ELSE [k \in {} |-> JNull]
         IN  [k \in {n \in EntityNames : Truthy(Get(extracted, n))} |->
                 IF k = "amount" THEN str_of(extracted[k]) ELSE extracted[k]]

\* m.group(1).replace('_', ' ').title()
title_of(key) ==
    CASE key = "license_plate" -> "License Plate"
      [] key = "move_out_date" -> "Move Out Date"
      [] key = "amount" -> "Amount"
      [] OTHER -> key

\* _fill_placeholders: a placeholder becomes the entity value, or the
\* "not found" label when there is no such entity
fill_placeholders(text, entities) ==
    [k \in DOMAIN text |->
        IF text[k][1] = "placeholder"
        THEN IF text[k][2] \in DOMAIN entities
             THEN entities[text[k][2]]
             ELSE Str("[" \o title_of(text[k][2]) \o " - Not Found in Email]")
        ELSE text[k]]

\* the loop over wizard["steps"]
resolve_step(step, entities) ==
    [step EXCEPT
        !.substep = IF @ = NoValue THEN @ ELSE fill_placeholders(@, entities),
        !.entity_value =
            IF step.entity_field = NoValue THEN @
            ELSE IF step.entity_field[2] \in DOMAIN entities
            THEN entities[step.entity_field[2]]
            ELSE JNull,
        !.entity_found =
            IF step.entity_field = NoValue THEN @
            ELSE Bool(step.entity_field[2] \in DOMAIN entities)]

\* intent.startswith("_")
starts_with_underscore(intent) == intent \in {"_comment"}

\* get_wizard_for_intent on a loaded cache: the heap after the call and the
\* reference it returns
get_wizard_for_intent(h, data, intent, classification) ==
    LET key == IF intent \notin DOMAIN data \/ starts_with_underscore(intent)
               THEN "unclear" ELSE intent
        copy == deep_copy(h, data[key])
        wizard == copy.ref
        entities == wizard_entities(classification)
        steps == copy.heap[wizard].steps
        h1 == [copy.heap EXCEPT ![steps].items =
                  [k \in DOMAIN @ |-> resolve_step(@[k], entities)]]
        given == classification # NoValue /\ DOMAIN classification[2] # {}
        h2 == IF given
              THEN [h1 EXCEPT
                       ![wizard].ai_confidence =
                           Get(classification[2], "confidence"),
                       ![wizard].ai_intent = Str(key),
                       ![wizard].requires_human_review =
                           IF "requires_human_review"
                                  \in DOMAIN classification[2]
                           THEN classification[2]["requires_human_review"]
                           ELSE Bool(FALSE),
                       ![wizard].extracted_entities = Obj(entities)]
              ELSE h1
    IN  [heap |-> h2, ref |-> wizard]

\* the intents the wizard is asked for: known, unknown, a private key
WizardIntents == {"refund_request", "nonexistent_intent", "_comment"}

\* entity dicts a classification carries
WizardEntities ==
    { [k \in {"license_plate", "move_out_date"} |->
          IF k = "license_plate" THEN Str("XYZ-9999") ELSE JNull],
      [k \in {"license_plate", "amount"} |->
          IF k = "license_plate" THEN JNull ELSE Num(50)] }

\* the classification argument: None, or a dict with the entities under
\* one of the two keys
WizardClassifications ==
    {NoValue}
    \cup {Obj([k \in {"confidence", key} |->
                  IF k = "confidence" THEN Num(87) ELSE Obj(e)]) :
             key \in {"key_entities", "extracted_entities"},
             e \in WizardEntities}

\* one call of get_wizard_for_intent, the cache being loaded on the first
GetWizard ==
    /\ Len(wizards) < MaxWizards
    /\ \E intent \in WizardIntents, classification \in WizardClassifications :
        LET loaded == IF wizard_data = NoValue
                      THEN load_wizard_data(heap)
                      ELSE [heap |-> heap, data |-> wizard_data[2]]
            out == get_wizard_for_intent(loaded.heap, loaded.data, intent,
                                         classification)
        IN  /\ wizard_data' = <<"data", loaded.data>>
            /\ heap' = out.heap
            /\ wizards' = Append(wizards,
                   [ref |-> out.ref, intent |-> intent,
                    classification |-> classification,
                    returned |-> Deref(out.heap, out.ref),
                    mutated |-> FALSE])
    /\ UNCHANGED <<callVars, instance, hookVars, correctionVars>>
    /\ UNCHANGED <<serverVars, tokenVars>>

\* the caller changes a returned wizard in place:
\* wizard["steps"][0]["text"] = "MUTATED"
MutateWizard ==
    /\ \E i \in DOMAIN wizards :
        /\ ~wizards[i].mutated
        /\ heap' = [heap EXCEPT
               ![heap[wizards[i].ref].steps].items[1].text = Str("MUTATED")]
        /\ wizards' = [wizards EXCEPT ![i].mutated = TRUE]
    /\ UNCHANGED <<wizard_data, callVars, instance, hookVars, correctionVars>>
    /\ UNCHANGED <<serverVars, tokenVars>>

NextWizard == GetWizard \/ MutateWizard

SpecWizard == Init /\ [][NextWizard]_vars

(***************************************************************************)
(* The webhook endpoints and their throttle (src/main.py): every accepted  *)
(* webhook becomes a background task that runs its handler inside          *)
(* `async with _webhook_semaphore`.  What the handlers do to the ticket    *)
(* system and to the logs is modelled above; here a task keeps the outcome *)
(* of its handler only.                                                    *)
(***************************************************************************)
Webhooks == 1 .. MaxWebhooks

\* how process_ticket_webhook ends for a fetch outcome and a downstream
\* answer; it returns normally in every case
ticket_outcome(fetch, resp) ==
    IF fetch = "empty" THEN "fetch_empty"
    ELSE IF fetch = "raises" THEN "fetch_failed"
    ELSE LET r == classify_outcome(resp)
         IN  IF r.kind = "raise" THEN "classification_failed"
             ELSE IF apply_classification_tags(r.value[2],
                         Str(get_routing_recommendation(r.value[2]))).result
             THEN "tagged"
             ELSE "tagging_failed"

\* how process_correction_webhook ends; it returns normally in every case
correction_outcome(corrected_intent, fetch, returned) ==
    IF ~Truthy(corrected_intent) THEN "skipped"
    ELSE IF fetch = "empty" THEN "fetch_empty"
    ELSE IF fetch = "raises" THEN "fetch_failed"
    ELSE IF returned THEN "logged"
    ELSE "not_logged"

\* the endpoint a request is sent to: the odd ones go to
\* /webhooks/zoho/ticket-created, the even ones to
\* /webhooks/zoho/ticket-updated
endpoint_of(w) == IF w % 2 = 1 THEN "ticket" ELSE "correction"

\* a request arrives at its endpoint: without a ticket id it is answered
\* 400, otherwise the background task is added and the answer is "accepted"
ReceiveWebhook(w) ==
    /\ worker[w].pc = "none"
    /\ \E has_ticket_id \in BOOLEAN :
        worker' = [worker EXCEPT ![w] =
            IF has_ticket_id
            THEN [kind |-> endpoint_of(w), pc |-> "accepted",
                  outcome |-> "none"]
            ELSE [kind |-> "none", pc |-> "rejected", outcome |-> "none"]]
    /\ UNCHANGED <<permits, tokenVars>>
    /\ UNCHANGED <<callVars, instance, hookVars, correctionVars, wizardVars>>

\* variant: the task enters the block whether or not a permit is free
AcquirePermit_unbounded(w) ==
    /\ worker[w].pc = "accepted"
    /\ permits' = permits - 1
    /\ worker' = [worker EXCEPT ![w].pc = "running"]
    /\ UNCHANGED tokenVars
    /\ UNCHANGED <<callVars, instance, hookVars, correctionVars, wizardVars>>

\* `async with _webhook_semaphore` is entered: the task takes a permit when
\* one is free and waits otherwise
AcquirePermit(w) ==
    /\ worker[w].pc = "accepted"
    /\ permits > 0
    /\ permits' = permits - 1
    /\ worker' = [worker EXCEPT ![w].pc = "running"]
    /\ UNCHANGED tokenVars
    /\ UNCHANGED <<callVars, instance, hookVars, correctionVars, wizardVars>>

\* variant: the permit is given back only when the handler succeeded
permits_after_exit_on_success(p, outcome) ==
    IF outcome \in {"tagged", "logged"} THEN p + 1 ELSE p

\* leaving the `async with` block releases the permit, however the block
\* was left
permits_after_exit(p, outcome) == p + 1

\* the ways the handler of a task can end
HandlerOutcomes(kind) ==
    IF kind = "ticket"
    THEN {ticket_outcome(fetch, resp) :
             fetch \in FetchOutcomes, resp \in WebhookResponses}
    ELSE {correction_outcome(corrected_intent, fetch, returned) :
             corrected_intent \in PayloadIntents, fetch \in FetchOutcomes,
             returned \in BOOLEAN}

\* the handler runs to its end and the block is left
FinishHandler(w) ==
    /\ worker[w].pc = "running"
    /\ \E outcome \in HandlerOutcomes(worker[w].kind) :
        /\ worker' = [worker EXCEPT ![w].pc = "done",
                                    ![w].outcome = outcome]
        /\ permits' = permits_after_exit(permits, outcome)
    /\ UNCHANGED tokenVars
    /\ UNCHANGED <<callVars, instance, hookVars, correctionVars, wizardVars>>

NextServer ==
    \E w \in Webhooks :
        \/ ReceiveWebhook(w)
        \/ AcquirePermit(w)
        \/ FinishHandler(w)

SpecServer == Init /\ [][NextServer]_vars

\* the event loop runs every task that can run, and every request a handler
\* awaits ends (with an answer or with an error)
SpecServerLive ==
    /\ Init
    /\ [][NextServer]_vars
    /\ \A w \in Webhooks :
           WF_vars(AcquirePermit(w)) /\ WF_vars(FinishHandler(w))

(***************************************************************************)
(* ZohoDeskClient._get_access_token (src/src/api/zoho_client.py): the API  *)
(* calls made on the one client instance of the webhook module             *)
(***************************************************************************)
ApiCalls == 1 .. MaxApiCalls

\* `if self.access_token: return self.access_token`
cached_token(token) == Truthy(token)

\* an API call starts: _build_headers awaits _get_access_token, which
\* returns the cached token or sends the refresh request and awaits it
BeginApiCall(c) ==
    /\ api[c] = "new"
    /\ IF cached_token(access_token)
       THEN /\ api' = [api EXCEPT ![c] = "requesting"]
            /\ UNCHANGED token_requests
       ELSE /\ token_requests' = token_requests + 1
            /\ api' = [api EXCEPT ![c] = "refreshing"]
    /\ UNCHANGED <<access_token, permits, worker>>
    /\ UNCHANGED <<callVars, instance, hookVars, correctionVars, wizardVars>>

\* the token endpoint answers: 200 stores the token, anything else raises
TokenResponse(c) ==
    /\ api[c] = "refreshing"
    /\ \E status \in {200, 400} :
        IF status = 200
        THEN /\ access_token' = Str("token")
             /\ api' = [api EXCEPT ![c] = "requesting"]
        ELSE /\ api' = [api EXCEPT ![c] = "raised"]
             /\ UNCHANGED access_token
    /\ UNCHANGED <<token_requests, permits, worker>>
    /\ UNCHANGED <<callVars, instance, hookVars, correctionVars, wizardVars>>

\* the ticket API answers the request sent with the token
ApiResponse(c) ==
    /\ api[c] = "requesting"
    /\ api' = [api EXCEPT ![c] = "done"]
    /\ UNCHANGED <<access_token, token_requests, permits, worker>>
    /\ UNCHANGED <<callVars, instance, hookVars, correctionVars, wizardVars>>

NextToken ==
    \E c \in ApiCalls :
        \/ BeginApiCall(c)
        \/ TokenResponse(c)
        \/ ApiResponse(c)

SpecToken == Init /\ [][NextToken]_vars

(***************************************************************************)
(* Properties                                                              *)
(***************************************************************************)
\* the classification the last classify_email returned (pc = "returned")
Returned == retval[2]

Intent == Get(Returned, "intent")
Complexity == Get(Returned, "complexity")
Urgency == Get(Returned, "urgency")

\* every queue get_routing_recommendation returned for it is q
RoutedTo(q) == \A k \in DOMAIN routing : routing[k] = q

Routed == pc = "returned" /\ routing # <<>>

\* intent, complexity and urgency all lie in the documented enumerations
LegalClassification ==
    /\ Intent \in {Str(i) : i \in Intents}
    /\ Complexity \in {Str(c) : c \in Complexities}
    /\ Urgency \in {Str(u) : u \in Urgencies}

\* C1: on every classification over the 9 intents x 3 complexities x
\* 3 urgencies, get_routing_recommendation returns one of the five queue
\* names and nothing else.
C1_RouteTotal ==
    (pc = "returned" /\ LegalClassification)
        => \A k \in DOMAIN routing : routing[k] \in Queues

C1_Witness ==
    /\ Routed
    /\ LegalClassification
    /\ Intent = Str("technical_issue")
    /\ Complexity = Str("moderate")
    /\ Urgency = Str("low")

\* C2: a simple refund_request is routed to "Auto-Resolution Queue" whatever
\* the urgency (high included).
C2_SimpleRefund ==
    (pc = "returned" /\ Intent = Str("refund_request")
        /\ Complexity = Str("simple"))
        => RoutedTo("Auto-Resolution Queue")

C2_Witness ==
    /\ Routed
    /\ Intent = Str("refund_request")
    /\ Complexity = Str("simple")
    /\ Urgency = Str("high")

\* C3: a refund_request that is not simple, and a payment_issue of any
\* complexity, is routed to "Accounting/Refunds" whatever the urgency, never
\* to "Escalations".
C3_Accounting ==
    (pc = "returned"
        /\ \/ Intent = Str("refund_request") /\ Complexity # Str("simple")
           \/ Intent = Str("payment_issue"))
        => RoutedTo("Accounting/Refunds")

C3_Witness ==
    /\ Routed
    /\ Intent = Str("payment_issue")
    /\ Complexity = Str("complex")
    /\ Urgency = Str("high")

\* C4: a simple permit_cancellation or account_update is routed to
\* "Quick Updates" whatever the urgency (high included).
C4_QuickUpdates ==
    (pc = "returned"
        /\ Intent \in {Str("permit_cancellation"), Str("account_update")}
        /\ Complexity = Str("simple"))
        => RoutedTo("Quick Updates")

C4_Witness ==
    /\ Routed
    /\ Intent = Str("account_update")
    /\ Complexity = Str("simple")
    /\ Urgency = Str("high")

\* the classification matches one of the first three routing rules
MatchesRules1To3 ==
    \/ Intent \in {Str("refund_request"), Str("payment_issue")}
    \/ /\ Intent \in {Str("permit_cancellation"), Str("account_update")}
       /\ Complexity = Str("simple")

\* C5: a classification that matches none of rules 1-3 is routed to
\* "Escalations" whenever its complexity is complex or its urgency is high.
C5_Escalations ==
    (pc = "returned" /\ ~MatchesRules1To3
        /\ (Complexity = Str("complex") \/ Urgency = Str("high")))
        => RoutedTo("Escalations")

C5_Witness ==
    /\ Routed
    /\ Intent = Str("permit_inquiry")
    /\ Complexity = Str("simple")
    /\ Urgency = Str("high")
    /\ routing[1] = "Escalations"

SameRoutingFields(d) ==
    LET variants == {MkClassification(Get(d, "intent"), Get(d, "complexity"),
                                      Get(d, "urgency"), p) : p \in Profiles}
    IN  variants \cup {Restrict(v, {"intent", "complexity", "urgency"}) :
                            v \in variants}

\* a step that is a call of get_routing_recommendation
RoutingStep == pc = "returned" /\ pc' = "returned" /\ routing' # routing

\* C7: the queue depends on intent, complexity and urgency only: it is the
\* queue of every classification that agrees on these three fields, every
\* repeated call returns it again, and a call changes neither the
\* classification nor any other state.
C7_RoutePure ==
    /\ [](pc = "returned" =>
            \A k \in DOMAIN routing :
                /\ routing[k] = routing[1]
                /\ \A c2 \in SameRoutingFields(Returned) :
                       get_routing_recommendation(c2) = routing[k])
    /\ [][RoutingStep =>
            /\ retval' = retval
            /\ <<response, exc, usageLogged, requests, calls,
                  email, logOutcome, instance>>'
                   = <<response, exc, usageLogged, requests, calls,
                       email, logOutcome, instance>>
            /\ SubSeq(routing', 1, Len(routing)) = routing]_vars

C7_Witness ==
    /\ pc = "returned"
    /\ Len(routing) = 2
    /\ Get(Returned, "requires_refund") = Bool(TRUE)
    /\ Intent = Str("move_out")
    /\ routing[2] = "General Support"

\* the downstream call failed, or answered with text that is not JSON
DownstreamFailed ==
    pc # "idle" /\ (response.raises \/ response.content = NotJson)

UnlistedIntentAnswered ==
    /\ pc # "idle"
    /\ ~response.raises
    /\ response.content[1] = "json"
    /\ Get(response.content[2], "intent") \in {Str(i) : i \in UnlistedIntents}

\* C9: an intent outside the nine-value enumeration makes classify_email
\* fail with InvalidIntentValue; it is never returned in a classification.
C9_InvalidIntentFails ==
    UnlistedIntentAnswered =>
        /\ pc = "raised"
        /\ exc = "InvalidIntentValue"
        /\ retval = NoValue

\* C10: every classification classify_email returns has intent and
\* confidence non-null and has every other schema key, possibly null,
\* key_entities (when an object) with its four sub-keys.
C10_SchemaKeysPresent ==
    pc = "returned" =>
        /\ SchemaKeys \subseteq DOMAIN Returned
        /\ Returned["intent"] # JNull
        /\ Returned["confidence"] # JNull
        /\ \/ Returned["key_entities"] = JNull
           \/ /\ Returned["key_entities"][1] = "obj"
              /\ EntityKeys \subseteq DOMAIN Returned["key_entities"][2]

Confidence == Get(Returned, "confidence")

\* C11: the confidence of every classification classify_email returns lies
\* in [0.0, 1.0], whatever value the downstream response carried.
C11_ConfidenceClamped ==
    (pc = "returned" /\ Confidence[1] = "num")
        => (0 <= Confidence[2] /\ Confidence[2] <= 100)

\* C12: every returned classification with confidence below 0.70, or with
\* complexity complex, or with urgency high, has requires_human_review true.
C12_HumanReviewFlag ==
    (pc = "returned"
        /\ \/ (Confidence[1] = "num" /\ Confidence[2] < 70)
           \/ Complexity = Str("complex")
           \/ Urgency = Str("high"))
        => Get(Returned, "requires_human_review") = Bool(TRUE)

\* C13: a call with an empty subject and an empty body that returns, returns
\* intent unclear with a confidence below 0.40.
C13_EmptyEmailUnclear ==
    (pc = "returned" /\ email = EmptyEmail)
        => /\ Intent = Str("unclear")
           /\ Confidence[1] = "num"
           /\ Confidence[2] < 40

C19_TowIssueEscalates ==
    (pc = "returned" /\ Intent = Str("tow_issue")
        /\ Complexity \in {Str(c) : c \in Complexities}
        /\ Urgency \in {Str(u) : u \in Urgencies})
        => RoutedTo("Escalations")

\* C20: intent password_reset with complexity simple and urgency low is
\* routed to "Quick Updates".
C20_PasswordResetQuick ==
    (pc = "returned" /\ Intent = Str("password_reset")
        /\ Complexity = Str("simple") /\ Urgency = Str("low"))
        => RoutedTo("Quick Updates")

\* task t ran classify_email and was handed a classification
Classified(t) ==
    task[t].pc = "done" /\ task[t].classification # NoValue

CompleteClassification(d) ==
    /\ SchemaKeys \subseteq DOMAIN d
    /\ d["confidence"] # JNull
    /\ d["key_entities"] # JNull

\* C17: for every ticket the webhook layer processed, the queue get_routing_
\* recommendation returned is the cf_routing_queue stored in the ticket
\* system and the routing_queue of the ticket's analytics entry.
C17_QueueWritten ==
    \A t \in Tasks :
        (Classified(t) /\ CompleteClassification(task[t].classification[2]))
            => /\ tickets[t].customFields # NoValue
               /\ Get(tickets[t].customFields[2], "cf_routing_queue")
                      = task[t].routing
               /\ \A k \in DOMAIN events :
                      events[k].ticket_id = t =>
                          events[k].routing_queue = task[t].routing

\* C18: apply_classification_tags returns True exactly when the ticket's
\* custom fields were updated in the ticket system.
C18_TrueIffUpdated ==
    \A t \in Tasks :
        task[t].tag_result # JNull =>
            (task[t].tag_result = Bool(TRUE)
                <=> tickets[t].customFields # NoValue)

(***************************************************************************)
(* Correction logging properties                                           *)
(***************************************************************************)
\* the calls of log_correction whose record went to the given store
CallsStoredIn(store) ==
    SelectSeq(correction_calls, LAMBDA c : c.store = store)

\* the record the contract asks for, given the arguments of a call
ExpectedRecord(c) ==
    [ticket_id |-> c.ticket_id,
     department_id |-> c.department_id,
     original_intent |-> c.original_intent,
     corrected_intent |-> c.corrected_intent,
     confidence |-> c.confidence,
     is_misclassification |->
         ~(c.corrected_intent = Str("correct")
           \/ c.corrected_intent = c.original_intent)]

\* C21: every record log_correction wrote, to the table or to the file,
\* holds the arguments of its call unchanged, and is flagged
\* is_misclassification exactly when the corrected intent is not the
\* keyword "correct" and differs from the original intent.
C21_CorrectionRecord ==
    /\ Len(db_corrections) = Len(CallsStoredIn("db"))
    /\ Len(jsonl_corrections) = Len(CallsStoredIn("jsonl"))
    /\ \A k \in DOMAIN db_corrections :
           db_corrections[k] = ExpectedRecord(CallsStoredIn("db")[k])
    /\ \A k \in DOMAIN jsonl_corrections :
           jsonl_entry(jsonl_corrections[k])
               = ExpectedRecord(CallsStoredIn("jsonl")[k])

\* two records are stored, one in the table and one in the file: one names
\* the keyword and is not flagged, the other names another intent and is
C21_Witness ==
    /\ Len(db_corrections) = 1
    /\ Len(jsonl_corrections) = 1
    /\ db_corrections[1].corrected_intent = Str("correct")
    /\ ~db_corrections[1].is_misclassification
    /\ db_corrections[1].confidence = JNull
    /\ jsonl_entry(jsonl_corrections[1]).corrected_intent
           = Str("refund_request")
    /\ jsonl_entry(jsonl_corrections[1]).original_intent
           = Str("permit_inquiry")
    /\ jsonl_entry(jsonl_corrections[1]).is_misclassification
    /\ jsonl_entry(jsonl_corrections[1]).confidence = Num(85)

\* the corrections logged (log_correction returned True) before the summary
\* was taken
LoggedBeforeSummary ==
    SelectSeq(SubSeq(correction_calls, 1, summary[2].at),
              LAMBDA c : c.returned)

FlaggedBeforeSummary ==
    SelectSeq(LoggedBeforeSummary,
              LAMBDA c : ExpectedRecord(c).is_misclassification)

RECURSIVE SumCounts(_)
SumCounts(ps) ==
    IF ps = <<>> THEN 0
    ELSE ps[Len(ps)].count + SumCounts(SubSeq(ps, 1, Len(ps) - 1))

\* C22: the summary counts every logged correction: total is their number,
\* misclassifications the number of flagged ones, accuracy_rate the
\* percentage not flagged (to one decimal), and confusion_pairs lists each
\* distinct pair of the flagged ones once with its count, largest first,
\* the counts summing to misclassifications.
C22_SummaryCounts ==
    summary # NoValue =>
        LET r == summary[2].report
            n == Len(LoggedBeforeSummary)
            m == Len(FlaggedBeforeSummary)
            ps == r.confusion_pairs
        IN  /\ r.total = n
            /\ r.misclassifications = m
            /\ n > 0 =>
                   /\ 2 * r.accuracy_rate * n <= 2000 * (n - m) + n
                   /\ 2 * r.accuracy_rate * n >= 2000 * (n - m) - n
            /\ \A i, j \in DOMAIN ps :
                   /\ i # j => ps[i].pair # ps[j].pair
                   /\ i < j => ps[i].count >= ps[j].count
            /\ \A i \in DOMAIN ps :
                   ps[i].count =
                       Cardinality({k \in DOMAIN FlaggedBeforeSummary :
                           pair_of(FlaggedBeforeSummary[k]) = ps[i].pair})
            /\ \A k \in DOMAIN FlaggedBeforeSummary :
                   \E i \in DOMAIN ps :
                       ps[i].pair = pair_of(FlaggedBeforeSummary[k])
            /\ SumCounts(ps) = m

\* C26: a correction webhook whose corrected intent is missing, blank or the
\* keyword "correct" writes no correction record.
C26_NoRecordWithoutCorrection ==
    \A k \in DOMAIN correction_calls :
        (/\ correction_calls[k].caller = "webhook"
         /\ correction_calls[k].corrected_intent
                \in {JNull, Str(""), Str("correct")})
            => correction_calls[k].store \in {"skipped"}

(***************************************************************************)
(* process_ticket_webhook: failures and the analytics log                  *)
(***************************************************************************)
\* the handler of ticket t got the ticket and classify_email raised
ClassifyFailed(t) ==
    /\ task[t].pc = "done"
    /\ task[t].fetch = "data"
    /\ classify_outcome(task[t].response).kind = "raise"

\* the events recorded for ticket t
EventsOf(t) == SelectSeq(events, LAMBDA e : e.ticket_id = t)

\* C27: when classify_email fails inside the handler the ticket is left
\* untagged (no custom-field update, no comment, no tag result), every event
\* logged for it carries the error text with intent, routing_queue null and
\* tagging_success false, and the handler still ends normally.
C27_ClassifyFailureLogged ==
    \A t \in Tasks :
        ClassifyFailed(t) =>
            /\ task[t].classification = NoValue
            /\ task[t].tag_result = JNull
            /\ tickets[t].customFields = NoValue
            /\ ~tickets[t].comment
            /\ \A k \in DOMAIN EventsOf(t) :
                   /\ EventsOf(t)[k].error
                          = Str(classify_outcome(task[t].response).exc)
                   /\ EventsOf(t)[k].intent = JNull
                   /\ EventsOf(t)[k].routing_queue = JNull
                   /\ ~EventsOf(t)[k].tagging_success

\* classify_email failed for ticket 1 on an unparsable answer, and its
\* error event is in the log
C27_Witness ==
    /\ ClassifyFailed(1)
    /\ task[1].response.content = NotJson
    /\ Len(EventsOf(1)) = 1
    /\ EventsOf(1)[1].error = Str("JSONDecodeError")

\* C28 as stated: a handler whose fetch was not empty has recorded exactly
\* one classification event.
C28_ExactlyOneEvent ==
    \A t \in Tasks :
        (task[t].pc = "done" /\ task[t].fetch # "empty") =>
            Len(EventsOf(t)) = 1

\* C28: a handler records at most one classification event, and none before
\* it is done or when the fetch was empty; the event is either a success
\* event carrying the intent of the classification, the queue routed from
\* it and the result of the tagging that preceded the log call, with no
\* error, or an event with null intent and queue, which has the error text
\* when the fetch or the classification raised.
C28_AtMostOneEvent ==
    \A t \in Tasks :
        /\ Len(EventsOf(t)) <= 1
        /\ (task[t].pc # "done" \/ task[t].fetch = "empty") =>
               EventsOf(t) = <<>>
        /\ \A k \in DOMAIN EventsOf(t) :
               LET e == EventsOf(t)[k]
               IN  \/ /\ Classified(t)
                      /\ e.intent = Get(task[t].classification[2], "intent")
                      /\ e.routing_queue = Str(get_routing_recommendation(
                             task[t].classification[2]))
                      /\ e.tagging_success = (task[t].tag_result = Bool(TRUE))
                      /\ e.error = JNull
                   \/ /\ e.intent = JNull
                      /\ e.routing_queue = JNull
                      /\ ~e.tagging_success
                      /\ (task[t].fetch = "raises" \/ ClassifyFailed(t))
                             => e.error # JNull

\* both handlers are done, one with a success event and one with the error
\* event of a failed fetch
C28_Witness ==
    /\ Classified(1)
    /\ Len(EventsOf(1)) = 1
    /\ EventsOf(1)[1].intent = Str("refund_request")
    /\ EventsOf(1)[1].routing_queue = Str("Auto-Resolution Queue")
    /\ task[2].pc = "done"
    /\ task[2].fetch = "raises"
    /\ Len(EventsOf(2)) = 1
    /\ EventsOf(2)[1].error = Str("HTTPError")

(***************************************************************************)
(* Wizard properties                                                       *)
(***************************************************************************)
\* C23: a returned wizard is an independent copy: as long as a caller has
\* not changed its own wizard it still reads as it was returned, whatever
\* was done to the wizards of other calls, and the cached wizard data still
\* reads as the file does.
C23_IndependentCopy ==
    /\ \A i \in DOMAIN wizards :
           ~wizards[i].mutated =>
               Deref(heap, wizards[i].ref) = wizards[i].returned
    /\ wizard_data # NoValue =>
           \A k \in {"refund_request", "unclear"} :
               /\ Deref(heap, wizard_data[2][k]).label = WizardContent[k].label
               /\ Deref(heap, wizard_data[2][k]).steps = WizardContent[k].steps

\* two wizards were returned for the same intent and the first has been
\* changed by its caller
C23_Witness ==
    /\ Len(wizards) = 2
    /\ wizards[1].intent = "refund_request"
    /\ wizards[2].intent = "refund_request"
    /\ wizards[1].mutated
    /\ ~wizards[2].mutated
    /\ Deref(heap, wizards[1].ref).steps[1].text = Str("MUTATED")

\* the entity value a classification carries under either key
EntityGiven(classification, name) ==
    IF classification = NoValue THEN JNull
    ELSE LET under(key) ==
                 IF Truthy(Get(classification[2], key))
                 THEN Get(Get(classification[2], key)[2], name)
                 ELSE JNull
         IN  IF Truthy(under("key_entities")) THEN under("key_entities")
             ELSE under("extracted_entities")

\* C24: an entity present under key_entities or under extracted_entities is
\* substituted into the substep and sets entity_found true and entity_value
\* on the step whose entity_field names it; an absent or null entity gives
\* entity_found false.
C24_EntitiesFromEitherKey ==
    \A i \in DOMAIN wizards :
        \A k \in DOMAIN wizards[i].returned.steps :
            LET step == wizards[i].returned.steps[k]
                v == EntityGiven(wizards[i].classification,
                                 step.entity_field[2])
            IN  step.entity_field # NoValue =>
                    IF Truthy(v)
                    THEN /\ step.entity_found = Bool(TRUE)
                         /\ step.entity_value = str_of(v)
                         /\ \E p \in DOMAIN step.substep :
                                step.substep[p] = str_of(v)
                    ELSE step.entity_found = Bool(FALSE)

(***************************************************************************)
(* Throttle and token properties                                           *)
(***************************************************************************)
\* the tasks inside the `async with _webhook_semaphore` block
Executing == {w \in Webhooks : worker[w].pc = "running"}

\* C25: at most 3 webhook-triggered tasks, of both handlers counted
\* together, are executing at any moment, however many webhooks were
\* accepted; the permits in use and the free ones always add up to 3.
C25_AtMostThreeExecuting ==
    /\ Cardinality(Executing) <= 3
    /\ permits >= 0
    /\ permits + Cardinality(Executing) = 3

\* four webhooks of both kinds were accepted: three are executing and the
\* fourth waits for a permit
C25_Witness ==
    /\ Cardinality(Executing) = 3
    /\ permits = 0
    /\ \E w \in Webhooks : worker[w].pc = "accepted"
    /\ \E v, w \in Executing :
           worker[v].kind = "ticket" /\ worker[w].kind = "correction"

\* C29 as stated: at most one token-refresh request is ever sent on the
\* instance.
C29_OneTokenRefresh == token_requests <= 1

\* the accepted webhooks whose handler has not finished yet
Pending == {w \in Webhooks : worker[w].pc \in {"accepted", "running"}}

\* C30: every accepted webhook eventually gets a permit and its handler
\* runs to completion (whenever webhooks are pending, a moment comes when
\* none is, each of them being done then), the permit is released whatever
\* the outcome, and when no accepted webhook is pending all 3 permits are
\* free.
C30_AcceptedIsProcessed ==
    /\ (Pending # {}) ~> (Pending = {})
    /\ [](Pending = {} => permits = 3)
    /\ [][\A w \in Webhooks :
              worker[w].pc \in {"accepted", "running"} =>
                  worker'[w].pc \in {"accepted", "running", "done"}]_vars

\* all webhooks were accepted and are done, with handlers that failed in
\* each way, and the permits are back
C30_Witness ==
    /\ \A w \in Webhooks : worker[w].pc = "done"
    /\ \E w \in Webhooks : worker[w].outcome = "fetch_failed"
    /\ \E w \in Webhooks : worker[w].outcome = "classification_failed"
    /\ \E w \in Webhooks : worker[w].outcome = "tagging_failed"
    /\ permits = 3

====
